---- MODULE Spec2Model ----
(***************************************************************************)
(* Battle orchestration of Battle-of-Tunes.                                *)
(*                                                                         *)
(* The participants table is shared by the orchestrator                    *)
(* (submissionhandler.py) and the generation bot (musicgenbot.py).  The    *)
(* orchestrator writes the columns battle_active and                       *)
(* battle_start_timestamp, deletes rows, and reads the column audio_file;  *)
(* the generation bot writes the columns audio_data and audio_filename.    *)
(* No file of the repository inserts a row or writes audio_file: those two *)
(* writers are the store operations register and recordSubmission.         *)
(* The orchestrator runs one Matchmaker loop (check_for_battles) and one   *)
(* tracker task (monitor_battle_submissions) per started battle on a       *)
(* single asyncio loop: the code between two awaits is one atomic step.    *)
(***************************************************************************)
EXTENDS Integers, FiniteSets, Sequences, TLC

\* ------------------------------------------------------------------ bounds
\* Register steps in a run; users are numbered in the order they first register
MaxRegistrations == 4
\* promotions in a run (the values of battle_start_timestamp)
MaxPromotions == 2
\* update_participant_audio calls in a run
MaxAudioUpdates == 2
MaxStakeTime == 3
MaxGenerations == 2
MaxHandlers == 2

\* quorum of submissionhandler.py: len(valid_participants) == 2
Q == 2

Users == 1..MaxRegistrations
\* Every operation of the orchestrator is keyed by one chat_id; one context.
Chats == {1}
AllChats == {1, 2}
GenUsers == {1}
GenChats == {1, 2}
Keys == Users \X Chats

\* SQL NULL of the columns audio_file, audio_data, battle_start_timestamp
NULL == 0

VARIABLES
    rows,            \* table participants: (user_id, chat_id) -> row
    clock,           \* datetime('now'), advanced by every promotion
    active_battles,  \* SongBattleBot.active_battles
    mm_pc,           \* position of check_for_battles
    snapshot,        \* chat_participants of the running sweep
    todo,            \* chats of the sweep's for loop not yet visited
    cur,             \* chat the for loop is at (awaiting get_chat_member or send_message)
    tr,              \* position of each chat's monitor_battle_submissions task
    trBattle,        \* battle_start_timestamp of the promotion that started the task
    subs,            \* submissions list read by submit_to_evaluation, in flight
    form,            \* form_data of the request in flight
    evalCalls,       \* history: evaluator requests made by each battle's tracker
    evalFailed,      \* history: battles whose evaluator request failed
    evalOk,          \* history: battles whose evaluator request was answered 200 with JSON
    noticeSent,      \* history: battles whose failure notice was handed to send_message
    ended,           \* history: battles whose tracker task has terminated
    completeSeen,    \* history: battles for which check_all_participants_submitted returned true
    last,            \* history: the last direct call of a store operation (ApiSpec),
                     \* the failed activation of the current sweep (Spec)
    nreg,            \* history: Register steps so far
    nupd,            \* history: update_participant_audio calls so far
    sk,              \* stakingbot.py: table participants, user_id -> row
    sk_now,          \* stakingbot.py: datetime('now')
    sk_conv,         \* stakingbot.py: users whose conversation is in WAITING_WALLET
    sk_out,          \* history: the last exchange of process_battle with the evaluator
    user_states,     \* musicgenbot.py: user id -> conversation state
    user_last_audio, \* musicgenbot.py: user id -> path of the last generated audio
    gen_tasks,       \* musicgenbot.py: handlers suspended at an await, <<user, handler>>
    ngen,            \* history: audio files generated so far
    gen_verified,    \* history: users for whom verify_participant has succeeded
    lock,            \* ParticipantsDatabase._lock of the orchestrator: "free" or "held"
    result           \* chat -> the evaluator's answer and the message built from it

vars == <<rows, clock, active_battles, mm_pc, snapshot, todo, cur, tr, trBattle,
          subs, form, evalCalls, evalFailed, evalOk, noticeSent, ended, completeSeen,
          last, nreg, nupd, sk, sk_now, sk_conv, sk_out,
          user_states, user_last_audio, gen_tasks, ngen, gen_verified, lock, result>>

handlerVars == <<active_battles, mm_pc, snapshot, todo, cur, tr, trBattle, subs, form,
                 evalCalls, evalFailed, evalOk, noticeSent, ended, completeSeen, result>>

\* the orchestrator and its table
orchVars == <<rows, clock, handlerVars, last, nreg, nupd, lock>>

\* the state of the registration bot (stakingbot.py), a process of its own
\* with a database file of its own
stakeVars == <<sk, sk_now, sk_conv, sk_out>>

\* the state of the generation bot (musicgenbot.py), a process of its own that
\* shares the orchestrator's table
genVars == <<user_states, user_last_audio, gen_tasks, ngen, gen_verified>>

sideVars == <<stakeVars, genVars>>

\* ------------------------------------------------------------ the store
\* A row as the registration component inserts it: idle, verified, no submission.
NewRow == [battle_active |-> 0, battle_start_timestamp |-> NULL, verified |-> 1,
           audio_file |-> NULL, audio_data |-> NULL, audio_filename |-> NULL]

ChatOf(k) == k[2]
UserOf(k) == k[1]

ActiveKeys(rws, c) == {k \in DOMAIN rws : ChatOf(k) = c /\ rws[k].battle_active = 1}

\* get_all_inactive_participants without "WHERE battle_active = 0"
GetAllParticipants(rws) == DOMAIN rws

\* SELECT ... WHERE battle_active = 0
GetAllInactiveParticipants(rws) == {k \in DOMAIN rws : rws[k].battle_active = 0}

\* UPDATE ... SET battle_active = 1, battle_start_timestamp = now
\*   WHERE user_id IN (user_ids) AND chat_id = ?
\* the UPDATE without its `user_id IN (...)`: every row of the chat
ActivateBattleForChat(rws, user_ids, c, now) ==
    [k \in DOMAIN rws |->
        IF ChatOf(k) = c
        THEN [rws[k] EXCEPT !.battle_active = 1, !.battle_start_timestamp = now]
        ELSE rws[k]]

ActivateBattleForUsers(rws, user_ids, c, now) ==
    [k \in DOMAIN rws |->
        IF UserOf(k) \in user_ids /\ ChatOf(k) = c
        THEN [rws[k] EXCEPT !.battle_active = 1, !.battle_start_timestamp = now]
        ELSE rws[k]]

\* check_all_participants_submitted counting the rows that have a submission:
\* ... AND audio_file IS NOT NULL, result[0] > 0
CheckSomeParticipantSubmitted(rws, c) ==
    {k \in ActiveKeys(rws, c) : rws[k].audio_file # NULL} # {}

\* SELECT COUNT(*) ... WHERE chat_id = ? AND battle_active = 1 AND audio_file IS NULL
CheckAllParticipantsSubmitted(rws, c) ==
    {k \in ActiveKeys(rws, c) : rws[k].audio_file = NULL} = {}

\* SELECT wallet_address, audio_file ... battle_active = 1 AND audio_file IS NOT NULL
GetParticipantsForSubmission(rws, c) ==
    {k \in ActiveKeys(rws, c) : rws[k].audio_file # NULL}

\* reset_battle without "AND battle_active = 1"
ResetBattleWholeChat(rws, c) ==
    [k \in {j \in DOMAIN rws : ChatOf(j) # c} |-> rws[k]]

\* DELETE FROM participants WHERE chat_id = ? AND battle_active = 1
ResetBattle(rws, c) ==
    [k \in (DOMAIN rws) \ ActiveKeys(rws, c) |-> rws[k]]

\* musicgenbot: UPDATE participants SET audio_data = ?, audio_filename = ?
\*   WHERE user_id = ?
UpdateParticipantAudio(rws, u, data) ==
    [k \in DOMAIN rws |->
        IF UserOf(k) = u
        THEN [rws[k] EXCEPT !.audio_data = data, !.audio_filename = data]
        ELSE rws[k]]

\* no evaluator answer is held
NoResult == [winner_wallet |-> NULL, rankings_message |-> <<>>]

NoOp == [op |-> "none", chat |-> 0, users |-> {}, ok |-> TRUE, pre |-> <<>>]

\* the battles (promotion timestamps) the rows `ks` belong to
BattlesOf(rws, ks) == {rws[k].battle_start_timestamp : k \in ks}

\* wallet_address of a row: every user registers a wallet of their own
WalletOf(k) == UserOf(k)

\* the submission dicts built from the rows `ks`: wallet_address, audio_file,
\* and (history) the row and the battle the row belonged to when it was read
SubmissionsOf(rws, ks) ==
    {[key |-> k, wallet_address |-> WalletOf(k), audio_file |-> rws[k].audio_file,
      battle |-> rws[k].battle_start_timestamp] : k \in ks}

\* cursor.fetchall() of a query without ORDER BY: the lists that hold every
\* element of S once, in any order
Orderings(S) ==
    {f \in [1..Cardinality(S) -> S] : \A i, j \in DOMAIN f : f[i] = f[j] => i = j}

\* name of a form field: f'audio_{idx + 1}', f'wallet_{idx + 1}'
FieldName(kind, i) == <<kind, i>>

\* wallet_{i} built from the submission at the mirrored position
FormDataWalletsReversed(submissions) ==
    [i \in 1..Len(submissions) |->
        [name |-> FieldName("audio", i), value |-> submissions[i].audio_file]]
    \o
    [i \in 1..Len(submissions) |->
        [name |-> FieldName("wallet", i),
         value |-> submissions[Len(submissions) + 1 - i].wallet_address]]

\* form_data of submit_to_evaluation: for idx, submission in enumerate(submissions)
\* add_field(audio_{idx+1}, audio bytes), then in a second loop over the same
\* list add_field(wallet_{idx+1}, wallet_address)
FormData(submissions) ==
    [i \in 1..Len(submissions) |->
        [name |-> FieldName("audio", i), value |-> submissions[i].audio_file]]
    \o
    [i \in 1..Len(submissions) |->
        [name |-> FieldName("wallet", i), value |-> submissions[i].wallet_address]]

Init ==
    /\ rows = <<>>
    /\ clock = 0
    /\ active_battles = {}
    /\ mm_pc = "sleep"
    /\ snapshot = {}
    /\ todo = {}
    /\ cur = 0
    /\ tr = [c \in AllChats |-> "none"]
    /\ trBattle = [c \in AllChats |-> 0]
    /\ subs = [c \in AllChats |-> <<>>]
    /\ form = [c \in AllChats |-> <<>>]
    /\ evalCalls = [b \in 1..MaxPromotions |-> 0]
    /\ evalFailed = {}
    /\ evalOk = {}
    /\ noticeSent = {}
    /\ ended = {}
    /\ completeSeen = {}
    /\ last = NoOp
    /\ nreg = 0
    /\ nupd = 0
    /\ sk = <<>>
    /\ sk_now = 1
    /\ sk_conv = {}
    /\ sk_out = NoOp
    /\ user_states = [u \in GenUsers |-> "None"]
    /\ user_last_audio = [u \in GenUsers |-> NULL]
    /\ gen_tasks = {}
    /\ ngen = 0
    /\ gen_verified = {}
    /\ lock = "free"
    /\ result = [c \in AllChats |-> NoResult]

\* ------------------------------------------------------------ the store lock
\* Every operation of ParticipantsDatabase is a plain function whose body is
\* `with self._lock:`; a step that calls one takes the lock, which must be
\* free, and leaves it as the end of the with block leaves it.
Acquire == lock = "free"

\* the lock is left held by the operation that took it
HeldAfterCall == lock' = "held"

Release == lock' = "free"

StoreCall == Acquire /\ Release

\* ------------------------------------------------ writers outside the orchestrator
\* register(contextId, userId, ...): a participant enters the store idle, with
\* no submission.  Only pairs without a row register.  User ids are opaque to
\* every operation, so users are numbered in the order they first register.
Register(u, c) ==
    /\ nreg < MaxRegistrations
    /\ u <= nreg + 1
    /\ <<u, c>> \notin DOMAIN rows
    /\ rows' = (<<u, c>> :> NewRow) @@ rows
    /\ nreg' = nreg + 1
    /\ UNCHANGED <<clock, handlerVars, last, nupd>>
    /\ UNCHANGED lock
    /\ UNCHANGED sideVars

\* recordSubmission(contextId, userId, payloadRef): the writer of the column
\* audio_file that the orchestrator reads; accepted only for an Active row.
\* The payload is identified by the time it was recorded.
RecordSubmission(u, c) ==
    /\ <<u, c>> \in DOMAIN rows
    /\ rows[<<u, c>>].battle_active = 1
    /\ rows[<<u, c>>].audio_file = NULL
    /\ rows' = [rows EXCEPT ![<<u, c>>].audio_file = clock]
    /\ UNCHANGED <<clock, handlerVars, last, nreg, nupd>>
    /\ UNCHANGED lock
    /\ UNCHANGED sideVars

\* musicgenbot handle_satisfaction, answer 'Submit': update_participant_audio.
\* SELECT COUNT(*) WHERE user_id = ? first: 'Participant not found' changes nothing.
SubmitAudio(u) ==
    /\ nupd < MaxAudioUpdates
    /\ \E k \in DOMAIN rows : UserOf(k) = u
    /\ rows' = UpdateParticipantAudio(rows, u, 1)
    /\ nupd' = nupd + 1
    /\ UNCHANGED <<clock, handlerVars, last, nreg>>
    /\ UNCHANGED lock
    /\ UNCHANGED sideVars

\* ------------------------------------------------------------ Matchmaker
\* check_for_battles awaits in get_chat_member, in start_battle's send_message
\* and in asyncio.sleep(30); what lies between two awaits is one step.

\* chats with a key in the sweep's result
ChatsIn(ks) == {ChatOf(k) : k \in ks}

\* chat_participants[chat_id] of the sweep
Candidates(found, c) == {k \in found : ChatOf(k) = c}

\* the for loop passes over a chat without awaiting: it is in active_battles
\* (continue) or has fewer than 2 idle rows
Skipped(found, c) == c \in active_battles \/ Cardinality(Candidates(found, c)) < Q

\* The for loop runs on from the chats `rest` (in the order of the query's
\* result, which the query leaves open between rows of equal timestamp) to its
\* next await: the membership checks of the first chat that is not skipped,
\* or, with every chat visited, the sleep.  The sweep's locals die with it.
Advance(found, rest) ==
    \/ /\ \A c \in rest : Skipped(found, c)
       /\ mm_pc' = "sleep"
       /\ cur' = 0
       /\ todo' = {}
       /\ snapshot' = {}
    \/ \E c \in rest : \E before \in SUBSET (rest \ {c}) :
       /\ ~Skipped(found, c)
       /\ \A d \in before : Skipped(found, d)
       /\ mm_pc' = "member"
       /\ cur' = c
       /\ todo' = rest \ (before \cup {c})
       /\ snapshot' = found

\* the sleep ends: get_all_inactive_participants (the rows of the query, or
\* [] when the query fails), group by chat, enter the loop
SweepBegin ==
    /\ mm_pc = "sleep"
    /\ UNCHANGED active_battles
    /\ \E err \in BOOLEAN :
         LET found == IF err THEN {} ELSE GetAllInactiveParticipants(rows)
         IN  Advance(found, ChatsIn(found))
    /\ last' = NoOp
    /\ UNCHANGED <<rows, clock, tr, trBattle, subs, form, evalCalls, evalFailed, evalOk,
                   noticeSent, ended, completeSeen, nreg, nupd>>
    /\ StoreCall
    /\ UNCHANGED result
    /\ UNCHANGED sideVars

\* the membership checks of chat cur are over with valid_participants = valid
\* (status member, administrator or creator; ApiTelegramException drops the
\* candidate) and the chat is not promoted: len(valid_participants) is not 2,
\* or activate_battle_for_users returned False on a store error (err)
\* line 335 before line 334: the chat joins active_battles although
\* activate_battle_for_users returned False
SweepNoBattleMarksChat(valid, err) ==
    /\ mm_pc = "member"
    /\ valid \subseteq Candidates(snapshot, cur)
    /\ Cardinality(valid) # Q \/ err
    /\ active_battles' = IF Cardinality(valid) = Q THEN active_battles \cup {cur}
                         ELSE active_battles
    /\ Advance(snapshot, todo)
    /\ last' = IF Cardinality(valid) = Q
               THEN [op |-> "activate_battle_for_users", chat |-> cur,
                     users |-> {UserOf(k) : k \in valid}, ok |-> FALSE, pre |-> <<>>]
               ELSE last
    /\ UNCHANGED <<rows, clock, tr, trBattle, subs, form, evalCalls, evalFailed,
                   evalOk, noticeSent, ended, completeSeen, nreg, nupd>>
    /\ IF Cardinality(valid) = Q THEN StoreCall ELSE UNCHANGED lock
    /\ UNCHANGED result
    /\ UNCHANGED sideVars

SweepNoBattle(valid, err) ==
    /\ mm_pc = "member"
    /\ valid \subseteq Candidates(snapshot, cur)
    /\ Cardinality(valid) # Q \/ err
    /\ UNCHANGED active_battles
    /\ Advance(snapshot, todo)
    /\ last' = IF Cardinality(valid) = Q
               THEN [op |-> "activate_battle_for_users", chat |-> cur,
                     users |-> {UserOf(k) : k \in valid}, ok |-> FALSE, pre |-> <<>>]
               ELSE last
    /\ UNCHANGED <<rows, clock, tr, trBattle, subs, form, evalCalls, evalFailed,
                   evalOk, noticeSent, ended, completeSeen, nreg, nupd>>
    /\ IF Cardinality(valid) = Q THEN StoreCall ELSE UNCHANGED lock
    /\ UNCHANGED result
    /\ UNCHANGED sideVars

\* the membership checks of chat cur are over with valid_participants = valid,
\* len(valid_participants) == 2: activate_battle_for_users succeeds, the chat
\* joins active_battles, start_battle awaits send_message
SweepPromote(valid) ==
    /\ mm_pc = "member"
    /\ clock < MaxPromotions
    /\ valid \subseteq Candidates(snapshot, cur)
    /\ Cardinality(valid) = Q
    /\ rows' = ActivateBattleForUsers(rows, {UserOf(k) : k \in valid}, cur, clock + 1)
    /\ clock' = clock + 1
    /\ active_battles' = active_battles \cup {cur}
    /\ mm_pc' = "start"
    /\ UNCHANGED <<snapshot, todo, cur, tr, trBattle, subs, form, evalCalls,
                   evalFailed, evalOk, noticeSent, ended, completeSeen, last, nreg, nupd>>
    /\ StoreCall
    /\ UNCHANGED result
    /\ UNCHANGED sideVars

\* get_chat_member raises an exception other than ApiTelegramException and
\* nothing catches it: check_for_battles is over
SweepAbortFatal ==
    /\ mm_pc = "member"
    /\ mm_pc' = "dead"
    /\ cur' = 0
    /\ todo' = {}
    /\ snapshot' = {}
    /\ UNCHANGED <<rows, clock, active_battles, tr, trBattle, subs, form, evalCalls,
                   evalFailed, evalOk, noticeSent, ended, completeSeen, last, nreg, nupd>>
    /\ UNCHANGED lock
    /\ UNCHANGED result
    /\ UNCHANGED sideVars

\* get_chat_member raises an exception other than ApiTelegramException: the
\* sweep is abandoned, check_for_battles logs it and sleeps
SweepAbort ==
    /\ mm_pc = "member"
    /\ mm_pc' = "sleep"
    /\ cur' = 0
    /\ todo' = {}
    /\ snapshot' = {}
    /\ UNCHANGED <<rows, clock, active_battles, tr, trBattle, subs, form, evalCalls,
                   evalFailed, evalOk, noticeSent, ended, completeSeen, last, nreg, nupd>>
    /\ UNCHANGED lock
    /\ UNCHANGED result
    /\ UNCHANGED sideVars

\* start_battle: the announcement is sent and the tracker task is created,
\* then the for loop runs on; or send_message raises, no task is created,
\* check_for_battles logs it and sleeps
StartBattle(ok) ==
    /\ mm_pc = "start"
    /\ UNCHANGED active_battles
    /\ IF ok
       THEN /\ tr' = [tr EXCEPT ![cur] = "poll"]
            /\ trBattle' = [trBattle EXCEPT ![cur] = clock]
            /\ Advance(snapshot, todo)
       ELSE /\ mm_pc' = "sleep"
            /\ cur' = 0
            /\ todo' = {}
            /\ snapshot' = {}
            /\ UNCHANGED <<tr, trBattle>>
    /\ UNCHANGED <<rows, clock, subs, form, evalCalls, evalFailed,
                   evalOk, noticeSent, ended, completeSeen, last, nreg, nupd>>
    /\ UNCHANGED lock
    /\ UNCHANGED result
    /\ UNCHANGED sideVars

\* ------------------------------------------------------------ tracker
\* the task of chat c ends without the finally of monitor_battle_submissions
EndTrackerKeepsChat(c) ==
    /\ tr' = [tr EXCEPT ![c] = "none"]
    /\ ended' = ended \cup {trBattle[c]}
    /\ active_battles' = active_battles
    /\ subs' = [subs EXCEPT ![c] = <<>>]
    /\ form' = [form EXCEPT ![c] = <<>>]

\* the task of chat c ends: finally: active_battles.remove(chat_id)
EndTracker(c) ==
    /\ tr' = [tr EXCEPT ![c] = "none"]
    /\ ended' = ended \cup {trBattle[c]}
    /\ active_battles' = active_battles \ {c}
    /\ subs' = [subs EXCEPT ![c] = <<>>]
    /\ form' = [form EXCEPT ![c] = <<>>]

\* monitor_battle_submissions, the poll in which
\* check_all_participants_submitted returns true: the task awaits the
\* announcement.  A poll that returns False (also on a store error) sleeps
\* 10 s and changes nothing.
Poll(c) ==
    /\ tr[c] = "poll"
    /\ CheckAllParticipantsSubmitted(rows, c)
    /\ tr' = [tr EXCEPT ![c] = "announce"]
    /\ completeSeen' = completeSeen \cup {trBattle[c]}
    /\ UNCHANGED <<rows, clock, active_battles, mm_pc, snapshot, todo, cur,
                   trBattle, subs, form, evalCalls,
                   evalFailed, evalOk, noticeSent, ended, last, nreg, nupd>>
    /\ StoreCall
    /\ UNCHANGED result
    /\ UNCHANGED sideVars

\* 'All submissions received' is sent, reset_battle is called at once, and
\* submit_to_evaluation then reads what is left and posts it
AnnounceResetFirst(c, ok) ==
    /\ tr[c] = "announce"
    /\ IF ok
       THEN \E read \in Orderings(SubmissionsOf(ResetBattle(rows, c),
                          GetParticipantsForSubmission(ResetBattle(rows, c), c))) :
            /\ rows' = ResetBattle(rows, c)
            /\ subs' = [subs EXCEPT ![c] = read]
            /\ form' = [form EXCEPT ![c] = FormData(read)]
            /\ evalCalls' = [evalCalls EXCEPT ![trBattle[c]] = @ + 1]
            /\ tr' = [tr EXCEPT ![c] = "post"]
            /\ UNCHANGED <<ended, active_battles>>
       ELSE /\ EndTracker(c)
            /\ UNCHANGED <<rows, evalCalls>>
    /\ UNCHANGED <<clock, mm_pc, snapshot, todo, cur,
                   trBattle, evalFailed, evalOk, noticeSent, completeSeen, last, nreg, nupd>>
    /\ IF ok THEN StoreCall ELSE UNCHANGED lock
    /\ UNCHANGED result
    /\ UNCHANGED sideVars

\* 'All submissions received' is sent and submit_to_evaluation reads the
\* submissions (the list of the query, or [] when the query fails), builds
\* form_data and posts it to the evaluator; or send_message raises and the
\* task ends in its except/finally
Announce(c, ok) ==
    /\ tr[c] = "announce"
    /\ IF ok
       THEN \E err \in BOOLEAN :
            \E read \in Orderings(SubmissionsOf(rows, GetParticipantsForSubmission(rows, c))) :
            LET submissions == IF err THEN <<>> ELSE read IN
            /\ subs' = [subs EXCEPT ![c] = submissions]
            /\ form' = [form EXCEPT ![c] = FormData(submissions)]
            /\ evalCalls' = [evalCalls EXCEPT ![trBattle[c]] = @ + 1]
            /\ tr' = [tr EXCEPT ![c] = "post"]
            /\ UNCHANGED <<ended, active_battles>>
       ELSE /\ EndTracker(c)
            /\ UNCHANGED evalCalls
    /\ UNCHANGED <<rows, clock, mm_pc, snapshot, todo, cur,
                   trBattle, evalFailed, evalOk, noticeSent, completeSeen, last, nreg, nupd>>
    /\ IF ok THEN StoreCall ELSE UNCHANGED lock
    /\ UNCHANGED result
    /\ UNCHANGED sideVars

\* The evaluator's JSON as far as the results message uses it: all_rankings
\* is the ranked list of the submitted wallets and winner_wallet is the wallet
\* ranked first; without submissions there is neither.
EvaluatorAnswers(submissions) ==
    IF submissions = <<>>
    THEN {[winner_wallet |-> NULL, all_rankings |-> <<>>]}
    ELSE {[winner_wallet |-> ranked[1], all_rankings |-> ranked] :
             ranked \in Orderings({submissions[i].wallet_address : i \in 1..Len(submissions)})}

\* the first participant in the battle, whatever the wallet
ParticipantAtHead(rws, c, wallet) ==
    IF ActiveKeys(rws, c) = {} THEN NULL
    ELSE UserOf(CHOOSE k \in ActiveKeys(rws, c) : \A j \in ActiveKeys(rws, c) : UserOf(k) <= UserOf(j))

\* next((p for p in participants.values() if p['wallet_address'] == wallet),
\* None) over get_participants(chat_id); NULL stands for "Unknown"
ParticipantByWallet(rws, c, wallet) ==
    LET hit == {k \in ActiveKeys(rws, c) : WalletOf(k) = wallet}
    IN  IF hit = {} THEN NULL ELSE UserOf(CHOOSE k \in hit : TRUE)

\* the '#idx @username' lines of rankings_message, in the order of all_rankings
RankingsMessage(rws, c, all_rankings) ==
    [i \in 1..Len(all_rankings) |-> ParticipantByWallet(rws, c, all_rankings[i])]

\* what the evaluator request comes to: "error" (network error, timeout,
\* status # 200, body that is not JSON), "result" (200 with the JSON the
\* results message is built from), "unusable" (200 with JSON the results
\* message cannot be built from: a missing field, a bad timestamp)
EvalOutcomes == {"error", "result", "unusable"}

\* except Exception of submit_to_evaluation without the send_message: the
\* exception is logged and the task ends
NoFailureNotice(c) ==
    /\ EndTracker(c)
    /\ UNCHANGED noticeSent

\* except Exception of submit_to_evaluation: the exception is logged and the
\* failure notice is handed to send_message, which the task awaits
FailureNotice(c) ==
    /\ tr' = [tr EXCEPT ![c] = "notice"]
    /\ noticeSent' = noticeSent \cup {trBattle[c]}
    /\ subs' = [subs EXCEPT ![c] = <<>>]
    /\ form' = [form EXCEPT ![c] = <<>>]
    /\ UNCHANGED <<ended, active_battles>>

\* the evaluator request is over and its form_data is dropped: with a result
\* the results message is built and handed to send_message; an error of the
\* request or of the building of the message enters the except branch
Post(c, res) ==
    /\ tr[c] = "post"
    /\ IF res = "result"
       THEN /\ tr' = [tr EXCEPT ![c] = "publish"]
            /\ subs' = [subs EXCEPT ![c] = <<>>]
            /\ form' = [form EXCEPT ![c] = <<>>]
            /\ \E answer \in EvaluatorAnswers(subs[c]) :
                 result' = [result EXCEPT ![c] =
                     [winner_wallet |-> answer.winner_wallet,
                      rankings_message |-> RankingsMessage(rows, c, answer.all_rankings)]]
            /\ UNCHANGED <<noticeSent, ended, active_battles>>
       ELSE /\ FailureNotice(c)
            /\ UNCHANGED result
    /\ evalFailed' = IF res = "error" THEN evalFailed \cup {trBattle[c]} ELSE evalFailed
    /\ evalOk' = IF res = "error" THEN evalOk ELSE evalOk \cup {trBattle[c]}
    /\ UNCHANGED <<rows, clock, mm_pc, snapshot, todo, cur,
                   trBattle, evalCalls, completeSeen, last, nreg, nupd>>
    /\ IF res = "result" THEN StoreCall ELSE UNCHANGED lock
    /\ UNCHANGED sideVars

\* the results message is sent: reset_battle, del evaluation_tasks[chat_id],
\* return, finally; or send_message raises: except branch, failure notice
Publish(c, ok) ==
    /\ tr[c] = "publish"
    /\ result' = [result EXCEPT ![c] = NoResult]
    /\ IF ok
       THEN /\ rows' = ResetBattle(rows, c)
            /\ EndTracker(c)
            /\ UNCHANGED noticeSent
       ELSE /\ FailureNotice(c)
            /\ UNCHANGED rows
    /\ UNCHANGED <<clock, mm_pc, snapshot, todo, cur, trBattle,
                   evalCalls, evalFailed, evalOk, completeSeen, last, nreg, nupd>>
    /\ IF ok THEN StoreCall ELSE UNCHANGED lock
    /\ UNCHANGED sideVars

\* the failure notice is sent (or raises into monitor_battle_submissions'
\* except): the task ends, reset_battle is not called
Notice(c) ==
    /\ tr[c] = "notice"
    /\ EndTracker(c)
    /\ UNCHANGED <<rows, clock, mm_pc, snapshot, todo, cur,
                   trBattle, evalCalls, evalFailed, evalOk, noticeSent, completeSeen,
                   last, nreg, nupd>>
    /\ UNCHANGED lock
    /\ UNCHANGED result
    /\ UNCHANGED sideVars

Matchmaker ==
    \/ SweepBegin
    \/ \E valid \in SUBSET Keys : SweepPromote(valid)
    \/ \E valid \in SUBSET Keys, err \in BOOLEAN : SweepNoBattle(valid, err)
    \/ SweepAbort
    \/ \E ok \in BOOLEAN : StartBattle(ok)

Tracker ==
    \E c \in Chats :
        \/ Poll(c)
        \/ \E ok \in BOOLEAN : Announce(c, ok) \/ Publish(c, ok)
        \/ \E res \in EvalOutcomes : Post(c, res)
        \/ Notice(c)

Writers ==
    \/ \E u \in Users, c \in Chats : Register(u, c) \/ RecordSubmission(u, c)
    \/ \E u \in Users : SubmitAudio(u)

Next == Matchmaker \/ Tracker \/ Writers

Spec == Init /\ [][Next]_vars

\* The asyncio loop runs every task that is ready: a sleep ends, an awaited
\* network call returns or raises.  Nothing obliges users to register or submit.
FairSpec == Spec /\ WF_vars(Matchmaker) /\ WF_vars(Tracker)

\* ------------------------------------------------ the store API called directly
\* activate_battle_for_users(user_ids, chat_id) on any arguments; it returns
\* False only from its except sqlite3.Error branch
CallActivate(user_ids, c, err) ==
    /\ clock < MaxPromotions
    /\ rows' = IF err THEN rows ELSE ActivateBattleForUsers(rows, user_ids, c, clock + 1)
    /\ clock' = clock + 1
    /\ last' = [op |-> "activate_battle_for_users", chat |-> c, users |-> user_ids,
                ok |-> ~err, pre |-> rows]
    /\ UNCHANGED <<handlerVars, nreg, nupd>>
    /\ StoreCall
    /\ UNCHANGED sideVars

\* a row of the shared table whose column verified (BOOLEAN DEFAULT 1) holds 0:
\* the table is written by other processes, and no operation of the
\* orchestrator writes or checks the column
InsertUnverified(u, c) ==
    /\ nreg < MaxRegistrations
    /\ u <= nreg + 1
    /\ <<u, c>> \notin DOMAIN rows
    /\ rows' = (<<u, c>> :> [NewRow EXCEPT !.verified = 0]) @@ rows
    /\ nreg' = nreg + 1
    /\ last' = NoOp
    /\ UNCHANGED <<clock, handlerVars, nupd>>
    /\ UNCHANGED lock
    /\ UNCHANGED sideVars

\* reset_battle(chat_id)
CallReset(c) ==
    /\ rows' = ResetBattle(rows, c)
    /\ last' = [op |-> "reset_battle", chat |-> c, users |-> {}, ok |-> TRUE, pre |-> rows]
    /\ UNCHANGED <<clock, handlerVars, nreg, nupd>>
    /\ StoreCall
    /\ UNCHANGED sideVars

ApiNext ==
    \/ \E u \in Users, c \in Chats : Register(u, c) \/ InsertUnverified(u, c)
    \/ \E U \in (SUBSET Users) \ {{}}, c \in Chats, err \in BOOLEAN : CallActivate(U, c, err)
    \/ \E c \in Chats : CallReset(c)

ApiSpec == Init /\ [][ApiNext]_vars

\* ======================================================================
\* C1: for every promoted battle the evaluator is called exactly once: once
\* check_all_participants_submitted has returned true for it and its tracker
\* has terminated, the tracker has made one evaluator request, never zero
\* and never two, and the chat has left active_battles.
C1_EvaluatorCalledExactlyOnce ==
    \A b \in 1..MaxPromotions :
        /\ evalCalls[b] <= 1
        /\ (b \in completeSeen /\ b \in ended) => evalCalls[b] = 1

\* C2: when the evaluator call of a battle failed, eventually no participant
\* of that battle is left with battle_active = 1.
C2_FailedBattleEventuallyReset ==
    \A b \in 1..MaxPromotions :
        (b \in evalFailed) ~>
            (\A k \in DOMAIN rows :
                rows[k].battle_start_timestamp = b => rows[k].battle_active = 0)

\* C3: in every reachable state the rows of a chat with battle_active = 1 all
\* belong to a single promotion.
C3_OneActiveBattlePerChat ==
    \A c \in Chats : Cardinality(BattlesOf(rows, ActiveKeys(rows, c))) <= 1

\* C4: once every Active participant of a chat has had a submission recorded
\* through the generation bot's update_participant_audio,
\* check_all_participants_submitted returns true for that chat.
C4_RecordedAudioCompletes ==
    \A c \in Chats :
        (/\ ActiveKeys(rows, c) # {}
         /\ \A k \in ActiveKeys(rows, c) : rows[k].audio_data # NULL)
        => CheckAllParticipantsSubmitted(rows, c)

\* C8: update_participant_audio for an Idle participant is rejected: a row has
\* a non-null submission (audio_data) only while it is Active.
C8_SubmissionOnlyWhileActive ==
    \A k \in DOMAIN rows : rows[k].battle_active = 0 => rows[k].audio_data = NULL

\* the step in which the tracker of chat c calls reset_battle(c)
ResetStep(c) == tr[c] = "publish" /\ tr'[c] = "none"

C6_ActivateRejectsNonIdle ==
    (/\ last.op = "activate_battle_for_users"
     /\ \E u \in last.users :
           \/ <<u, last.chat>> \notin DOMAIN last.pre
           \/ last.pre[<<u, last.chat>>].battle_active # 0)
    => (~last.ok /\ rows = last.pre)

\* C7: every promotion targets only rows that are Idle at the moment of
\* promotion, and a row that is Active never moves to another battle.
C7_PromotionTargetsIdleRows ==
    [][/\ clock' # clock =>
            \A k \in DOMAIN rows' :
                rows'[k].battle_start_timestamp = clock' =>
                    (k \in DOMAIN rows /\ rows[k].battle_active = 0)
       /\ \A k \in (DOMAIN rows) \cap (DOMAIN rows') :
            rows[k].battle_active = 1 =>
                rows'[k].battle_start_timestamp = rows[k].battle_start_timestamp]_vars

\* a second promotion has happened in a chat whose first battle still has
\* Active rows
C7_Witness ==
    /\ clock = 2
    /\ \E k \in DOMAIN rows : rows[k].battle_active = 1 /\ rows[k].battle_start_timestamp = 1
    /\ \E k \in DOMAIN rows : rows[k].battle_active = 1 /\ rows[k].battle_start_timestamp = 2

\* C9: every submission that is sent to the evaluator for a battle was
\* recorded after that battle's promotion.
C9_SubmissionsRecordedAfterPromotion ==
    \A c \in Chats :
        tr[c] = "post" =>
            \A i \in DOMAIN subs[c] : subs[c][i].audio_file >= trBattle[c]

\* C10: from the promotion of a battle until its reset the chat has exactly Q
\* rows with battle_active = 1 and the set of those rows does not change.
C10_ActiveSetFixedAtQuorum ==
    [][\A c \in Chats :
         /\ ActiveKeys(rows, c) # {} => Cardinality(ActiveKeys(rows, c)) = Q
         /\ (ActiveKeys(rows, c) # {} /\ ActiveKeys(rows', c) # {})
                => ActiveKeys(rows', c) = ActiveKeys(rows, c)]_vars

\* C11: when the membership checks of a chat without an active battle end with
\* more than Q valid idle candidates, check_for_battles promotes Q of them and
\* leaves the others Idle, so that a battle is formed.
C11_MoreThanQuorumPromotesQuorum ==
    [][\A valid \in SUBSET Keys :
         (/\ Cardinality(valid) > Q
          /\ SweepNoBattle(valid, FALSE) \/ SweepPromote(valid))
         => (/\ mm_pc' = "start"
             /\ ActiveKeys(rows', cur) \ ActiveKeys(rows, cur) \subseteq valid
             /\ Cardinality(ActiveKeys(rows', cur) \ ActiveKeys(rows, cur)) = Q
             /\ \A k \in valid \ ActiveKeys(rows', cur) : rows'[k].battle_active = 0)]_vars

\* C12: a participant who became Idle in a chat while the chat's battle was
\* Active is in no promotion before that battle has been reset: a promotion
\* in a chat happens only when the chat has no row with battle_active = 1,
\* also after the battle's tracker has ended on an error.
C12_NoPromotionBeforeReset ==
    [][\A c \in Chats :
         (clock' # clock /\ ActiveKeys(rows', c) # ActiveKeys(rows, c))
         => ActiveKeys(rows, c) = {}]_vars

\* C13: the submissions list of every request sent to the evaluator has
\* exactly Q entries, one for each participant of the tracker's battle and
\* with pairwise distinct wallets; it is never empty and holds no entry of an
\* earlier battle.
C13_SubmissionsAreTheBattle ==
    \A c \in Chats :
        tr[c] = "post" =>
            /\ Len(subs[c]) = Q
            /\ \A i \in DOMAIN subs[c] : subs[c][i].battle = trBattle[c]
            /\ \A i, j \in DOMAIN subs[c] :
                  subs[c][i].wallet_address = subs[c][j].wallet_address => i = j
            /\ {subs[c][i].key : i \in DOMAIN subs[c]}
                  = {k \in DOMAIN rows :
                        ChatOf(k) = c /\ rows[k].battle_start_timestamp = trBattle[c]}

\* C14: in the form_data of a request in flight, for every i in 1..n (n the
\* number of submissions read) there is exactly one field audio_i and exactly
\* one field wallet_i, audio_i carries the audio_file and wallet_i the
\* wallet_address of the i-th submission (one row of the store), and there are
\* n audio fields and n wallet fields in all.
C14_FieldsPairedByPosition ==
    \A c \in Chats :
        tr[c] = "post" =>
            LET n == Len(subs[c])
                fields(kind) == {j \in DOMAIN form[c] : form[c][j].name[1] = kind}
                named(kind, i) == {j \in DOMAIN form[c] : form[c][j].name = <<kind, i>>}
            IN  /\ Cardinality(fields("audio")) = n
                /\ Cardinality(fields("wallet")) = n
                /\ Len(form[c]) = 2 * n
                /\ \A i \in 1..n :
                     /\ Cardinality(named("audio", i)) = 1
                     /\ Cardinality(named("wallet", i)) = 1
                     /\ \A j \in named("audio", i) :
                           form[c][j].value = subs[c][i].audio_file
                     /\ \A j \in named("wallet", i) :
                           form[c][j].value = subs[c][i].wallet_address
                     /\ WalletOf(subs[c][i].key) = subs[c][i].wallet_address
                     /\ rows[subs[c][i].key].audio_file = subs[c][i].audio_file

\* a request is in flight whose submissions were read in an order that is not
\* the order of the user ids, with the payload fields filled
C14_Witness ==
    \E c \in Chats :
        /\ tr[c] = "post"
        /\ Len(subs[c]) >= Q
        /\ subs[c][1].wallet_address > subs[c][2].wallet_address
        /\ \A j \in DOMAIN form[c] : form[c][j].value # NULL

\* C15: after a successful evaluator response reset_battle is called even if
\* building or sending the results message fails: once the tracker of a battle
\* whose request was answered has terminated, no row of that battle is left
\* with battle_active = 1.
C15_ResetAfterEvaluatorResponse ==
    \A b \in evalOk :
        b \in ended =>
            \A k \in DOMAIN rows :
                rows[k].battle_start_timestamp = b => rows[k].battle_active = 0

C17_TrackerSurvivesIterationErrors ==
    [][\A c \in Chats : tr[c] \in {"poll", "announce"} => tr'[c] # "none"]_vars

\* C18: no exception of a sweep terminates check_for_battles: the loop is
\* always sleeping or inside a sweep, the step in which a sweep fails
\* (exception of get_chat_member or of start_battle) leaves it sleeping, a
\* store error of activate_battle_for_users lets the sweep run on, and from
\* the sleep the next sweep can always begin.
C18_SweepErrorsKeepLoopRunning ==
    [][/\ mm_pc \in {"sleep", "member", "start"}
       /\ mm_pc = "sleep" => ENABLED SweepBegin
       /\ (SweepAbort \/ StartBattle(FALSE)) => mm_pc' = "sleep"
       /\ (\E valid \in SUBSET Keys : SweepNoBattle(valid, TRUE))
             => mm_pc' \in {"sleep", "member"}]_vars

\* start_battle has raised after a promotion (the chat is in active_battles
\* with no tracker) and the loop is sleeping before its next sweep
C18_Witness ==
    /\ mm_pc = "sleep"
    /\ \E c \in active_battles : tr[c] = "none"

\* C19: within a battle check_all_participants_submitted(chat_id) is
\* monotonic: once it is true for a chat with Active rows it stays true
\* until reset_battle(chat_id) has run (which leaves no Active row).
C19_CompletenessMonotonic ==
    [][\A c \in Chats :
         (ActiveKeys(rows, c) # {} /\ CheckAllParticipantsSubmitted(rows, c))
         => CheckAllParticipantsSubmitted(rows', c)]_vars

\* C20: the tracker sends a request to the evaluator only in an iteration in
\* which check_all_participants_submitted returned true, and at the moment of
\* the request no Active row of the chat has a null audio_file.
C20_DispatchOnlyWhenComplete ==
    [][\A c \in Chats :
         (tr[c] = "announce" /\ tr'[c] = "post") =>
            /\ trBattle[c] \in completeSeen
            /\ evalCalls'[trBattle[c]] = evalCalls[trBattle[c]] + 1
            /\ \A k \in DOMAIN rows :
                 (ChatOf(k) = c /\ rows[k].battle_active = 1) => rows[k].audio_file # NULL]_vars

\* a request with the Q submissions of a complete battle is in flight
C20_Witness ==
    \E c \in Chats :
        /\ tr[c] = "post"
        /\ trBattle[c] \in completeSeen
        /\ Len(subs[c]) = Q
        /\ \A i \in DOMAIN subs[c] : subs[c][i].battle = trBattle[c]

-----------------------------------------------------------------------------
\* stakingbot.py: the registration bot.  One table keyed by user_id, one
\* battle at a time.  python-telegram-bot awaits each handler before it takes
\* the next update, so a handler is one step.

StakeUsers == {1, 2}
Wallets == {1, 2}

\* INSERT OR REPLACE: rows that collide on the primary key user_id or on the
\* UNIQUE wallet_address are deleted, then the row is inserted; audio_file is
\* not in the column list and takes its default NULL
AddParticipant(tbl, user_id, wallet_address, now) ==
    LET keep == {v \in DOMAIN tbl : v # user_id /\ tbl[v].wallet_address # wallet_address}
    IN  [v \in keep \cup {user_id} |->
            IF v = user_id
            THEN [wallet_address |-> wallet_address, audio_file |-> NULL, verified |-> 1,
                  battle_start_timestamp |-> now, battle_active |-> 1]
            ELSE tbl[v]]

\* get_participants: the Active rows
StakeGetParticipants(tbl) == {v \in DOMAIN tbl : tbl[v].battle_active = 1}

IsParticipantVerified(tbl, user_id) ==
    user_id \in StakeGetParticipants(tbl) /\ tbl[user_id].verified = 1

GetBattleStatus(tbl) == StakeGetParticipants(tbl) # {}

StakeUpdateParticipantAudio(tbl, user_id, audio_file) ==
    [v \in DOMAIN tbl |->
        IF v = user_id /\ tbl[v].battle_active = 1
        THEN [tbl[v] EXCEPT !.audio_file = audio_file]
        ELSE tbl[v]]

StakeResetBattle(tbl) ==
    [v \in DOMAIN tbl |->
        [tbl[v] EXCEPT !.battle_active = 0, !.audio_file = NULL,
                       !.battle_start_timestamp = NULL]]

\* time passes
StakeTick ==
    /\ sk_now < MaxStakeTime
    /\ sk_now' = sk_now + 1
    /\ UNCHANGED <<sk, sk_conv, sk_out, orchVars>>
    /\ UNCHANGED genVars

\* /start: entry point of the conversation
StakeStart(u) ==
    /\ ~(GetBattleStatus(sk) /\ IsParticipantVerified(sk, u))
    /\ u \notin sk_conv
    /\ sk_conv' = sk_conv \cup {u}
    /\ UNCHANGED <<sk, sk_now, sk_out, orchVars>>
    /\ UNCHANGED genVars

\* a text in WAITING_WALLET: valid says whether it has the form of an address,
\* err whether sqlite raised, replied whether the confirmation was delivered
\* (when reply_text raises the conversation keeps its state)
ValidateWalletAddress(u, w, valid, err, replied) ==
    /\ u \in sk_conv
    /\ sk' = IF valid /\ ~err THEN AddParticipant(sk, u, w, sk_now) ELSE sk
    /\ sk_conv' = IF valid /\ replied THEN sk_conv \ {u} ELSE sk_conv
    /\ UNCHANGED <<sk_now, sk_out, orchVars>>
    /\ UNCHANGED genVars

StakeOutcomes == {"download_error", "evaluator_error", "result"}

\* process_battle's message: the Active participant whose wallet is the
\* evaluator's winner_wallet, NULL for "No winner could be determined."
StakeWinner(tbl, winner_wallet) ==
    LET hit == {v \in StakeGetParticipants(tbl) : tbl[v].wallet_address = winner_wallet}
    IN  IF hit = {} THEN NULL ELSE CHOOSE v \in hit : TRUE

\* an audio message: receive_audio and, when every Active row has a file,
\* process_battle
ReceiveAudio(u, outcome, winner_wallet) ==
    /\ IsParticipantVerified(sk, u)
    /\ IF outcome = "download_error"
       THEN UNCHANGED <<sk, sk_out>>
       ELSE LET upd  == StakeUpdateParticipantAudio(sk, u, 1)
                subm == {v \in StakeGetParticipants(upd) : upd[v].audio_file # NULL}
            IN  IF subm # StakeGetParticipants(upd)
                THEN /\ sk' = upd
                     /\ UNCHANGED sk_out
                ELSE IF outcome = "evaluator_error"
                THEN /\ sk' = upd
                     /\ sk_out' = [submissions |-> {upd[v].wallet_address : v \in subm},
                                   winner_wallet |-> NULL, message |-> NULL, answered |-> FALSE]
                ELSE /\ sk' = StakeResetBattle(upd)
                     /\ sk_out' = [submissions |-> {upd[v].wallet_address : v \in subm},
                                   winner_wallet |-> winner_wallet,
                                   message |-> StakeWinner(upd, winner_wallet),
                                   answered |-> TRUE]
    /\ UNCHANGED <<sk_now, sk_conv, orchVars>>
    /\ UNCHANGED genVars

StakeNext ==
    \/ StakeTick
    \/ \E u \in StakeUsers : StakeStart(u)
    \/ \E u \in StakeUsers, w \in Wallets, valid, err, replied \in BOOLEAN :
           ValidateWalletAddress(u, w, valid, err, replied)
    \/ \E u \in StakeUsers, outcome \in StakeOutcomes, ww \in Wallets \cup {NULL} :
           ReceiveAudio(u, outcome, ww)

StakeSpec == Init /\ [][StakeNext]_vars

\* C24: add_participant leaves the participant Idle and verified with no
\* submission, and registering the same user with the same wallet a second
\* time changes nothing.
C24_RegistrationIdleAndIdempotent ==
    [][\A u \in StakeUsers, w \in Wallets :
         ValidateWalletAddress(u, w, TRUE, FALSE, TRUE) =>
            /\ sk'[u].battle_active = 0
            /\ sk'[u].verified = 1
            /\ sk'[u].audio_file = NULL
            /\ AddParticipant(sk', u, w, sk_now) = sk']_vars

-----------------------------------------------------------------------------
\* musicgenbot.py: the generation bot.  AsyncTeleBot runs the handler of each
\* message as a task of its own: a handler is chosen by the first filter, in
\* registration order, that accepts the message, runs up to its first await
\* in the same step, and continues in a later step.

GenTexts == {"/start", "/generate", "/about", "Submit", "submit", "No", "no",
             "0x1", "0x2", "other"}

\* message.text.lower()
Lower(text) == CASE text = "Submit" -> "submit" [] text = "No" -> "no" [] OTHER -> text

\* validate_wallet_address and the wallet a well-formed text names
AddressOf(text) == CASE text = "0x1" -> 1 [] text = "0x2" -> 2 [] OTHER -> NULL

\* the handler a message is given to
Handler(text, state) ==
    CASE text = "/start" -> "send_welcome"
      [] text # "/start" /\ state = "awaiting_wallet_address" -> "verify_wallet"
      [] text = "/generate" /\ state # "awaiting_wallet_address" -> "initiate_generation"
      [] text \notin {"/start", "/generate"} /\ state = "awaiting_prompt" -> "generate_music"
      [] text \notin {"/start", "/generate"} /\ state = "awaiting_satisfaction" -> "handle_satisfaction"
      [] text = "/about" /\ state = "None" -> "about_bot"
      [] OTHER -> "handle_other_messages"

\* verify_participant: the first row with the wallet belongs to the user
VerifyParticipant(rws, wallet_address, user_id) ==
    /\ \E k \in DOMAIN rws : WalletOf(k) = wallet_address
    /\ wallet_address = user_id

Suspend(u, h) ==
    /\ Cardinality(gen_tasks) < MaxHandlers
    /\ gen_tasks' = gen_tasks \cup {<<u, h>>}

Resume(u, h) ==
    /\ <<u, h>> \in gen_tasks
    /\ gen_tasks' = gen_tasks \ {<<u, h>>}

genFrame == <<clock, handlerVars, last, nreg, nupd, stakeVars, lock, gen_verified>>

SendWelcome(u, text) ==
    /\ Handler(text, user_states[u]) = "send_welcome"
    /\ Suspend(u, "send_welcome")
    /\ UNCHANGED <<rows, user_states, user_last_audio, ngen, genFrame>>

\* replied: reply_to returned; otherwise it raised and the handler is over
SendWelcomeReplied(u, replied) ==
    /\ Resume(u, "send_welcome")
    /\ user_states' = IF replied THEN [user_states EXCEPT ![u] = "awaiting_wallet_address"]
                      ELSE user_states
    /\ UNCHANGED <<rows, user_last_audio, ngen, genFrame>>

VerifyWallet(u, text) ==
    /\ Handler(text, user_states[u]) = "verify_wallet"
    /\ IF AddressOf(text) # NULL /\ VerifyParticipant(rows, AddressOf(text), u)
       THEN /\ Suspend(u, "verify_wallet")
            /\ gen_verified' = gen_verified \cup {u}
       ELSE UNCHANGED <<gen_tasks, gen_verified>>
    /\ UNCHANGED <<rows, user_states, user_last_audio, ngen,
                   clock, handlerVars, last, nreg, nupd, stakeVars, lock>>

VerifyWalletReplied(u, replied) ==
    /\ Resume(u, "verify_wallet")
    /\ user_states' = IF replied THEN [user_states EXCEPT ![u] = "None"] ELSE user_states
    /\ UNCHANGED <<rows, user_last_audio, ngen, genFrame>>

InitiateGeneration(u, text) ==
    /\ Handler(text, user_states[u]) = "initiate_generation"
    /\ Suspend(u, "initiate_generation")
    /\ UNCHANGED <<rows, user_states, user_last_audio, ngen, genFrame>>

InitiateGenerationReplied(u, replied) ==
    /\ Resume(u, "initiate_generation")
    /\ user_states' = IF replied THEN [user_states EXCEPT ![u] = "awaiting_prompt"]
                      ELSE user_states
    /\ UNCHANGED <<rows, user_last_audio, ngen, genFrame>>

GenerateMusic(u, text) ==
    /\ Handler(text, user_states[u]) = "generate_music"
    /\ Suspend(u, "generate_music")
    /\ UNCHANGED <<rows, user_states, user_last_audio, ngen, genFrame>>

\* "raised": the first reply_to, or the reply of the except branch, raised;
\* "failed": no audio, a status other than 200 or an exception, all of which
\* end in state None; "audio": the file is written and sent, and
\* user_last_audio is assigned before the question is sent
GenerationOutcomes == {"raised", "failed", "audio"}

\* generate_music that stores the audio as soon as it is generated
GenerateMusicStores(u, outcome) ==
    /\ <<u, "generate_music">> \in gen_tasks
    /\ CASE outcome = "raised" ->
              /\ gen_tasks' = gen_tasks \ {<<u, "generate_music">>}
              /\ UNCHANGED <<rows, user_states, user_last_audio, ngen>>
         [] outcome = "failed" ->
              /\ gen_tasks' = gen_tasks \ {<<u, "generate_music">>}
              /\ user_states' = [user_states EXCEPT ![u] = "None"]
              /\ UNCHANGED <<rows, user_last_audio, ngen>>
         [] outcome = "audio" ->
              /\ ngen < MaxGenerations
              /\ ngen' = ngen + 1
              /\ user_last_audio' = [user_last_audio EXCEPT ![u] = ngen + 1]
              /\ rows' = UpdateParticipantAudio(rows, u, ngen + 1)
              /\ gen_tasks' = (gen_tasks \ {<<u, "generate_music">>})
                                 \cup {<<u, "generate_music_ask">>}
              /\ UNCHANGED user_states
    /\ UNCHANGED genFrame

GenerateMusicAnswered(u, outcome) ==
    /\ <<u, "generate_music">> \in gen_tasks
    /\ CASE outcome = "raised" ->
              /\ gen_tasks' = gen_tasks \ {<<u, "generate_music">>}
              /\ UNCHANGED <<user_states, user_last_audio, ngen>>
         [] outcome = "failed" ->
              /\ gen_tasks' = gen_tasks \ {<<u, "generate_music">>}
              /\ user_states' = [user_states EXCEPT ![u] = "None"]
              /\ UNCHANGED <<user_last_audio, ngen>>
         [] outcome = "audio" ->
              /\ ngen < MaxGenerations
              /\ ngen' = ngen + 1
              /\ user_last_audio' = [user_last_audio EXCEPT ![u] = ngen + 1]
              /\ gen_tasks' = (gen_tasks \ {<<u, "generate_music">>})
                                 \cup {<<u, "generate_music_ask">>}
              /\ UNCHANGED user_states
    /\ UNCHANGED <<rows, genFrame>>

\* the question 'Do you want to submit this audio' was sent ("audio"), or
\* send_message raised and the except branch replied ("failed") or raised too
GenerateMusicAsked(u, outcome) ==
    /\ Resume(u, "generate_music_ask")
    /\ user_states' = CASE outcome = "audio"  -> [user_states EXCEPT ![u] = "awaiting_satisfaction"]
                        [] outcome = "failed" -> [user_states EXCEPT ![u] = "None"]
                        [] OTHER              -> user_states
    /\ UNCHANGED <<rows, user_last_audio, ngen, genFrame>>

\* handle_satisfaction up to its first await.  err: the file could not be
\* read (update_participant_audio returns False) or removed (os.remove raises)
HandleSatisfaction(u, text, err) ==
    /\ Handler(text, user_states[u]) = "handle_satisfaction"
    /\ CASE Lower(text) = "submit" /\ user_last_audio[u] # NULL ->
              /\ rows' = IF ~err /\ (\E k \in DOMAIN rows : UserOf(k) = u)
                         THEN UpdateParticipantAudio(rows, u, user_last_audio[u])
                         ELSE rows
              /\ Suspend(u, "submit")
              /\ UNCHANGED user_last_audio
         [] Lower(text) = "submit" /\ user_last_audio[u] = NULL ->
              UNCHANGED <<rows, user_last_audio, gen_tasks>>
         [] Lower(text) = "no" ->
              IF err /\ user_last_audio[u] # NULL
              THEN UNCHANGED <<rows, user_last_audio, gen_tasks>>
              ELSE /\ user_last_audio' = [user_last_audio EXCEPT ![u] = NULL]
                   /\ Suspend(u, "no")
                   /\ UNCHANGED rows
         [] OTHER ->
              UNCHANGED <<rows, user_last_audio, gen_tasks>>
    /\ UNCHANGED <<user_states, ngen, genFrame>>

\* after the message of the 'submit' branch: "sent" deletes the entry of
\* user_last_audio and ends in None; "failed": send_message raised, the except
\* branch replied, the entry stays; "raised": the except branch raised too
SubmitReplied(u, outcome) ==
    /\ Resume(u, "submit")
    /\ user_last_audio' = IF outcome = "sent" THEN [user_last_audio EXCEPT ![u] = NULL]
                          ELSE user_last_audio
    /\ user_states' = IF outcome = "raised" THEN user_states
                      ELSE [user_states EXCEPT ![u] = "None"]
    /\ UNCHANGED <<rows, ngen, genFrame>>

NoReplied(u, replied) ==
    /\ Resume(u, "no")
    /\ user_states' = IF replied THEN [user_states EXCEPT ![u] = "None"] ELSE user_states
    /\ UNCHANGED <<rows, user_last_audio, ngen, genFrame>>

\* about_bot and handle_other_messages answer and change nothing
AboutBot(u, text) ==
    /\ Handler(text, user_states[u]) = "about_bot"
    /\ UNCHANGED vars

HandleOtherMessages(u, text) ==
    /\ Handler(text, user_states[u]) = "handle_other_messages"
    /\ UNCHANGED vars

GenNext ==
    \/ \E u \in {1, 2}, c \in GenChats : Register(u, c)
    \/ \E u \in GenUsers, text \in GenTexts :
           \/ SendWelcome(u, text)
           \/ VerifyWallet(u, text)
           \/ InitiateGeneration(u, text)
           \/ GenerateMusic(u, text)
           \/ AboutBot(u, text)
           \/ HandleOtherMessages(u, text)
           \/ \E err \in BOOLEAN : HandleSatisfaction(u, text, err)
    \/ \E u \in GenUsers, replied \in BOOLEAN :
           \/ SendWelcomeReplied(u, replied)
           \/ VerifyWalletReplied(u, replied)
           \/ InitiateGenerationReplied(u, replied)
           \/ NoReplied(u, replied)
    \/ \E u \in GenUsers, outcome \in GenerationOutcomes :
           \/ GenerateMusicAnswered(u, outcome)
           \/ GenerateMusicAsked(u, outcome)
    \/ \E u \in GenUsers, outcome \in {"sent", "failed", "raised"} : SubmitReplied(u, outcome)

GenSpec == Init /\ [][GenNext]_vars

\* C25: update_participant_audio for a user changes the submission of rows of
\* one chat only: the rows whose audio columns differ after a step all belong
\* to the same chat.
C25_AudioWrittenInOneContext ==
    [][\A k1, k2 \in DOMAIN rows \cap DOMAIN rows' :
         (rows'[k1].audio_data # rows[k1].audio_data /\
          rows'[k2].audio_data # rows[k2].audio_data) => ChatOf(k1) = ChatOf(k2)]_vars

\* C21: reset_battle of a chat is never executed before the evaluator call of
\* the chat's battle has completed: in the step that deletes Active rows of a
\* chat, the chat's tracker has made its evaluator request and the request
\* has been answered.
C21_ResetOnlyAfterDispatch ==
    [][\A c \in Chats :
         (ActiveKeys(rows, c) \ DOMAIN rows' # {}) =>
            /\ evalCalls[trBattle[c]] = 1
            /\ trBattle[c] \in evalOk
            /\ tr[c] \notin {"poll", "announce", "post"}]_vars

\* a battle has been promoted, found complete, dispatched, answered and reset
C21_Witness ==
    \E b \in completeSeen \cap evalOk \cap ended :
        /\ evalCalls[b] = 1
        /\ b \notin noticeSent
        /\ \A k \in DOMAIN rows : rows[k].battle_start_timestamp # b

\* C22: in every reachable state a chat in active_battles has a live tracker,
\* or the Matchmaker is inside start_battle for it and about to create one.
C22_ActiveBattleHasTracker ==
    \A c \in active_battles : tr[c] # "none" \/ (mm_pc = "start" /\ cur = c)

InFlight ==
    \/ mm_pc \in {"member", "start"}
    \/ \E c \in Chats : tr[c] \in {"announce", "post", "publish", "notice"}

\* C26: the store lock is never held while a call to the messaging or
\* evaluation collaborator is in flight.
C26_LockFreeDuringNetworkCalls == InFlight => lock = "free"

\* the evaluator request of a battle is in flight, after the sweep, the poll
\* and submit_to_evaluation have each taken and released the lock
C26_Witness ==
    /\ lock = "free"
    /\ \E c \in Chats :
         /\ tr[c] = "post"
         /\ evalCalls[trBattle[c]] = 1
         /\ trBattle[c] \in completeSeen
         /\ Len(subs[c]) = Q

C28_AudioStoredOnlyOnSubmit ==
    [][(\E k \in DOMAIN rows \cap DOMAIN rows' :
            \/ rows'[k].audio_data # rows[k].audio_data
            \/ rows'[k].audio_filename # rows[k].audio_filename) =>
          \E u \in GenUsers :
             /\ user_states[u] = "awaiting_satisfaction"
             /\ user_last_audio[u] # NULL
             /\ \E text \in {"Submit", "submit"} : HandleSatisfaction(u, text, FALSE)
             /\ \A k \in DOMAIN rows :
                  UserOf(k) = u => rows'[k].audio_data = user_last_audio[u]]_vars

\* a generated audio has been submitted and stored, and a later one generated
C28_Witness ==
    \E u \in GenUsers, k \in DOMAIN rows :
        /\ UserOf(k) = u
        /\ rows[k].audio_data = 1
        /\ user_last_audio[u] = 2

C30_FailedActivationLeavesChatForNextSweep ==
    [][\A valid \in SUBSET Keys :
         (Cardinality(valid) = Q /\ SweepNoBattle(valid, TRUE)) =>
            /\ rows' = rows
            /\ cur \notin active_battles'
            /\ tr' = tr /\ tr'[cur] = "none"
            /\ mm_pc' # "start"
            /\ valid \subseteq GetAllInactiveParticipants(rows')
            /\ Cardinality(Candidates(GetAllInactiveParticipants(rows'), cur)) >= Q]_vars

\* the activation of a chat's two valid candidates has failed in this sweep,
\* and both are still idle
C30_Witness ==
    /\ last.op = "activate_battle_for_users"
    /\ ~last.ok
    /\ mm_pc = "sleep"
    /\ Cardinality(last.users) = Q
    /\ \A u \in last.users : <<u, last.chat>> \in GetAllInactiveParticipants(rows)
    /\ last.chat \notin active_battles

\* C31: in the step in which the tracker of a chat terminates, by return or by
\* exception, the chat leaves active_battles; a chat enters active_battles
\* only in a successful promotion of check_for_battles; and while a chat is in
\* active_battles it holds rows of a promoted battle whose tracker has not
\* ended.
C31_ActiveBattlesFromPromotionToTrackerEnd ==
    [][\A c \in Chats :
         /\ (tr[c] # "none" /\ tr'[c] = "none") => c \notin active_battles'
         /\ (c \notin active_battles /\ c \in active_battles') =>
                /\ cur = c
                /\ \E valid \in SUBSET Keys : SweepPromote(valid)
         /\ c \in active_battles' =>
                \E b \in BattlesOf(rows', ActiveKeys(rows', c)) : b \notin ended']_vars

\* a tracker has ended on an exception, without reset: its battle's rows are
\* still Active and the chat has left active_battles
C31_Witness ==
    \E c \in Chats :
        /\ tr[c] = "none"
        /\ c \notin active_battles
        /\ \E b \in ended \cap noticeSent : b \in BattlesOf(rows, ActiveKeys(rows, c))

-----------------------------------------------------------------------------
\* check_for_battles over two chats: the registrations and the Matchmaker
\* alone, the trackers it creates never running.
SweepNext ==
    \/ \E u \in Users, c \in AllChats : Register(u, c)
    \/ SweepBegin
    \/ \E valid \in SUBSET Candidates(snapshot, cur) : SweepPromote(valid)
    \/ \E valid \in SUBSET Candidates(snapshot, cur), err \in BOOLEAN : SweepNoBattle(valid, err)
    \/ SweepAbort
    \/ \E ok \in BOOLEAN : StartBattle(ok)

SweepSpec == Init /\ [][SweepNext]_vars

\* C32: a failure while the sweep processes one chat (an exception of
\* get_chat_member or of start_battle) does not keep the sweep from another
\* chat: when a chat still to be visited has exactly Q idle candidates and
\* is not in active_battles, the sweep goes on to the membership checks of
\* such a chat.
C32_FailureLeavesOtherContextsInSweep ==
    [][((SweepAbort \/ StartBattle(FALSE)) /\
        (\E d \in todo : d \notin active_battles /\ Cardinality(Candidates(snapshot, d)) = Q))
           => (mm_pc' = "member" /\ cur' \in todo)]_vars

\* C33: stakingbot never sends the evaluator fewer than Q submissions:
\* process_battle is not entered while fewer than Q participants are
\* registered and Active, in particular not when the only registered
\* participant submits an audio.
C33_StakeEvaluatorGetsQuorum ==
    sk_out # NoOp => Cardinality(sk_out.submissions) >= Q

\* C34: stakingbot's add_participant for a user leaves the row of every other
\* user in the table and unchanged, also when the wallet is one that another
\* user has registered.
C34_RegistrationKeepsOtherRows ==
    [][\A u \in StakeUsers, w \in Wallets, replied \in BOOLEAN :
         ValidateWalletAddress(u, w, TRUE, FALSE, replied) =>
            \A v \in (DOMAIN sk) \ {u} : v \in DOMAIN sk' /\ sk'[v] = sk[v]]_vars

\* C35: in musicgenbot a user whose conversation state is
\* awaiting_satisfaction has an entry in user_last_audio, so the 'No audio to
\* submit' branch of handle_satisfaction cannot be reached.
C35_AwaitingSatisfactionHasAudio ==
    \A u \in GenUsers :
        user_states[u] = "awaiting_satisfaction" => user_last_audio[u] # NULL


\* C36: a user in awaiting_wallet_address is not moved to awaiting_prompt or
\* awaiting_satisfaction: the state is left only by the reply of a successful
\* verification, which ends in None.
C36_WalletStateLeftOnlyByVerification ==
    [][\A u \in GenUsers :
         user_states[u] = "awaiting_wallet_address" =>
            /\ user_states'[u] \notin {"awaiting_prompt", "awaiting_satisfaction"}
            /\ user_states'[u] # "awaiting_wallet_address" => VerifyWalletReplied(u, TRUE)]_vars


\* C37: update_participant_audio is called only for a user whose wallet
\* verification has succeeded before: a 'Submit' that reaches the call is
\* from a user in gen_verified.
C37_SubmissionOnlyAfterVerification ==
    [][\A u \in GenUsers, text \in GenTexts, err \in BOOLEAN :
         (/\ HandleSatisfaction(u, text, err)
          /\ Lower(text) = "submit"
          /\ user_last_audio[u] # NULL) => u \in gen_verified]_vars

====
